---- MODULE Spec2Model ----
(***************************************************************************)
(* Model of the ingestion front-end of cyclops-go (src/api/api.go): the    *)
(* request handler apiHandler, its helper validateCache, the two stat      *)
(* counters and statsHandler.  The collaborators models.Cache,             *)
(* models.RequestStorage, models.SentryProjects and hash.HashForGrouping   *)
(* are not part of src/ and are modelled from their interface contracts.   *)
(*                                                                         *)
(* Strings are modelled as tuples: bodies and projectId path segments as   *)
(* tuples of ASCII codes, auth values as tuples of tokens in which "=" is  *)
(* a token of its own.                                                     *)
(***************************************************************************)
EXTENDS Integers, Sequences, FiniteSets, Bags, TLC

\* ------------------------------------------------------------------ bounds
NumReq == 2          \* handler invocations in a run of the full system
NumBurst == 3        \* handler invocations in a burst within one window
MaxTime == 1         \* the clock runs from 0 to MaxTime seconds
MaxExpiration == 1   \* largest configured UrlCacheExpiration (seconds)
MaxUses == 1         \* largest configured MaxCacheUses

\* ------------------------------------------------------- strings and bytes
RECURSIVE SumSeq(_)
SumSeq(s) == IF s = <<>> THEN 0 ELSE Head(s) + SumSeq(Tail(s))

RECURSIVE StripLeadingZeros(_)
StripLeadingZeros(s) ==
    IF Len(s) > 1 /\ Head(s) = 48 THEN StripLeadingZeros(Tail(s)) ELSE s

\* lexicographic s <= t for digit tuples of the same length
RECURSIVE DigitsLeq(_, _)
DigitsLeq(s, t) ==
    IF s = <<>> THEN TRUE
    ELSE IF Head(s) # Head(t) THEN Head(s) < Head(t)
    ELSE DigitsLeq(Tail(s), Tail(t))

\* "9223372036854775807", the largest int on a 64-bit build
MaxInt64Digits ==
    <<57,50,50,51,51,55,50,48,51,54,56,53,52,55,55,53,56,48,55>>

RECURSIVE DigitsValue(_, _)
DigitsValue(s, acc) ==
    IF s = <<>> THEN acc ELSE DigitsValue(Tail(s), acc * 10 + (Head(s) - 48))

\* strconv.Atoi on a path segment matching [0-9]+ : the only failure is a
\* value out of range.  The value is computed for the in-range inputs of
\* the model, which have at most nine significant digits.
Atoi(s) ==
    LET d == StripLeadingZeros(s) IN
    IF Len(d) > 19 \/ (Len(d) = 19 /\ ~DigitsLeq(d, MaxInt64Digits))
    THEN [val |-> 0, err |-> TRUE]
    ELSE [val |-> DigitsValue(d, 0), err |-> FALSE]

\* ------------------------------------------------------------------ base64
\* value of a character in the standard base64 alphabet, -1 if outside it
B64Val(c) ==
    IF c >= 65 /\ c <= 90 THEN c - 65
    ELSE IF c >= 97 /\ c <= 122 THEN c - 71
    ELSE IF c >= 48 /\ c <= 57 THEN c + 4
    ELSE IF c = 43 THEN 62
    ELSE IF c = 47 THEN 63
    ELSE -1

\* the decoder skips carriage returns and line feeds
RECURSIVE DropNewlines(_)
DropNewlines(s) ==
    IF s = <<>> THEN <<>>
    ELSE IF Head(s) = 10 \/ Head(s) = 13 THEN DropNewlines(Tail(s))
    ELSE <<Head(s)>> \o DropNewlines(Tail(s))

\* a quantum of four characters; padding is allowed in the last one only
QuadOk(q, last) ==
    /\ B64Val(q[1]) >= 0
    /\ B64Val(q[2]) >= 0
    /\ \/ B64Val(q[3]) >= 0 /\ B64Val(q[4]) >= 0
       \/ last /\ B64Val(q[3]) >= 0 /\ q[4] = 61
       \/ last /\ q[3] = 61 /\ q[4] = 61

QuadBytes(q) ==
    LET v(i) == IF q[i] = 61 THEN 0 ELSE B64Val(q[i])
        n == v(1) * 262144 + v(2) * 4096 + v(3) * 64 + v(4)
        b1 == n \div 65536
        b2 == (n \div 256) % 256
        b3 == n % 256
    IN  IF q[3] = 61 THEN <<b1>>
        ELSE IF q[4] = 61 THEN <<b1, b2>>
        ELSE <<b1, b2, b3>>

RECURSIVE DecodeQuads(_)
DecodeQuads(t) ==
    IF t = <<>> THEN [bytes |-> <<>>, err |-> FALSE]
    ELSE IF Len(t) < 4 THEN [bytes |-> <<>>, err |-> TRUE]
    ELSE LET q == SubSeq(t, 1, 4)
             rest == SubSeq(t, 5, Len(t))
         IN  IF ~QuadOk(q, rest = <<>>) THEN [bytes |-> <<>>, err |-> TRUE]
             ELSE LET r == DecodeQuads(rest)
                  IN  IF r.err THEN r
                      ELSE [bytes |-> QuadBytes(q) \o r.bytes, err |-> FALSE]

\* base64.StdEncoding.DecodeString
DecodeString(s) == DecodeQuads(DropNewlines(s))

\* a variant that never decodes the body
getRequestBodyRaw(in) ==
    IF ~in.readOk THEN [body |-> <<>>, err |-> TRUE]
    ELSE [body |-> in.body, err |-> FALSE]

\* getRequestBody: read the body; use the decoded bytes when it decodes
getRequestBody(in) ==
    IF ~in.readOk THEN [body |-> <<>>, err |-> TRUE]
    ELSE LET d == DecodeString(in.body)
         IN  [body |-> IF d.err THEN in.body ELSE d.bytes, err |-> FALSE]

\* ----------------------------------------------------------- collaborators
\* hash.HashForGrouping: a deterministic content identifier.  A body that is
\* not a JSON object cannot be grouped: the identifier is then empty and an
\* error is returned.  The identifier is two hexadecimal digits of a byte
\* checksum, which is collision-free on the bodies of the model.
HexDigit(n) == IF n < 10 THEN 48 + n ELSE 87 + n

HashForGrouping(b) ==
    IF Len(b) < 2 \/ b[1] # 123 \/ b[Len(b)] # 125
    THEN [hash |-> <<>>, err |-> TRUE]
    ELSE LET c == SumSeq(b) % 256
         IN  [hash |-> <<HexDigit(c \div 16), HexDigit(c % 16)>>, err |-> FALSE]

\* models.SentryProjects: the known projects and their public keys
Projects ==
    {[id |-> 1, key |-> <<"k1">>], [id |-> 2, key |-> <<"k2">>],
     [id |-> 108, key |-> <<"k3">>]}

IsValidProjectAndPublicKey(id, key) ==
    \E p \in Projects : p.id = id /\ p.key = key

\* models.Cache: a store of counters with an optional expiry.  An entry is
\* [count, expiresAt]; NoExpiry marks an entry without a time to live.
NoExpiry == -1

Live(c, k, t) ==
    k \in DOMAIN c /\ (c[k].expiresAt = NoExpiry \/ t < c[k].expiresAt)

\* Cache.Get: the count of a live entry, the zero value otherwise
CacheGet(c, k, t) == IF Live(c, k, t) THEN c[k].count ELSE 0

\* Cache.Set: establish a fresh entry with the given time to live unless a
\* live entry exists
CacheSet(c, k, ttl, t) ==
    IF Live(c, k, t) THEN c
    ELSE [x \in DOMAIN c \cup {k} |->
            IF x = k THEN [count |-> 0, expiresAt |-> t + ttl] ELSE c[x]]

\* Cache.Incr: increment a live entry; an absent or expired entry restarts
\* at 1.  Incr takes no time to live, so the entry it creates has none.
CacheIncr(c, k, t) ==
    IF Live(c, k, t) THEN [c EXCEPT ![k].count = @ + 1]
    ELSE [x \in DOMAIN c \cup {k} |->
            IF x = k THEN [count |-> 1, expiresAt |-> NoExpiry] ELSE c[x]]

\* -------------------------------------------------------------------- auth
\* index of the first "=" token of v, 0 if there is none
RECURSIVE FirstEq(_, _)
FirstEq(v, i) ==
    IF i > Len(v) THEN 0 ELSE IF v[i] = "=" THEN i ELSE FirstEq(v, i + 1)

\* a variant in which the first pair of a repeated field wins
RECURSIVE OverlayHeaderFirst(_, _)
OverlayHeaderFirst(auth, hs) ==
    IF hs = <<>> THEN auth
    ELSE LET v == Head(hs)
             e == FirstEq(v, 1)
             name == SubSeq(v, 1, e - 1)
             val == SubSeq(v, e + 1, Len(v))
             rest == OverlayHeaderFirst(auth, Tail(hs))
         IN  IF e = 0 THEN rest
             ELSE IF name = <<"sentry_key">>
                  THEN [rest EXCEPT !.sentry_key = val]
             ELSE IF name = <<"sentry_secret">>
                  THEN [rest EXCEPT !.sentry_secret = val]
             ELSE rest

RECURSIVE OverlayHeader(_, _)
OverlayHeader(auth, hs) ==
    IF hs = <<>> THEN auth
    ELSE LET v == Head(hs)
             e == FirstEq(v, 1)
             name == SubSeq(v, 1, e - 1)
             val == SubSeq(v, e + 1, Len(v))
             next == IF e = 0 THEN auth
                     ELSE IF name = <<"sentry_key">>
                          THEN [auth EXCEPT !.sentry_key = val]
                     ELSE IF name = <<"sentry_secret">>
                          THEN [auth EXCEPT !.sentry_secret = val]
                     ELSE auth
         IN  OverlayHeader(next, Tail(hs))

\* getSentryKeyAndSecret: the key of the query, overridden by the pairs of
\* the X-Sentry-Auth list in order
getSentryKeyAndSecret(in) ==
    OverlayHeader([sentry_key |-> in.query, sentry_secret |-> <<>>], in.header)

\* ------------------------------------------------------------------ inputs
Pid1 == <<49>>                                       \* "1"
Pid2 == <<50>>                                       \* "2"
Pid108 == <<49,48,56>>                               \* "108"
PidHuge == <<57,57,57,57,57,57,57,57,57,57,57,57,57,57,57,57,57,57,57,57>>

BodyJson == <<123,34,97,34,58,49,125>>               \* {"a":1}
BodyJsonB64 == <<101,121,74,104,73,106,111,120,102,81,61,61>>  \* eyJhIjoxfQ==
BodyText1 == <<110,111,33>>                          \* no!
BodyText2 == <<63,63>>                               \* ??
BodyText1B64 == <<98,109,56,104>>                    \* bm8h, "no!" encoded
BodyB64Like == <<101,51,48,61>>                      \* e30=, a text that decodes
BodyB64LikeB64 == <<90,84,77,119,80,81,61,61>>       \* ZTMwPQ==, "e30=" encoded

KeyHeader(k) == << <<"sentry_key", "=", k>> >>

\* a request of project 1 with its public key in the query; query and
\* querySecret are the sentry_key and sentry_secret parameters of the URL
Submission(b) ==
    [pid |-> Pid1, query |-> <<"k1">>, querySecret |-> <<>>, header |-> <<>>,
     body |-> b, readOk |-> TRUE]

\* requests the handler rejects: a projectId out of range, a key of another
\* project (the header overrides the query), a body whose read fails
RejectedInputs ==
    {[Submission(BodyJson) EXCEPT !.pid = PidHuge],
     [Submission(BodyJson) EXCEPT !.header = KeyHeader("k2")],
     [Submission(BodyJson) EXCEPT !.readOk = FALSE]}

\* the requests of a run of the full system
Inputs ==
    {Submission(b) : b \in {BodyJson, BodyText1, BodyText2}} \cup RejectedInputs

\* the requests of a burst: two encodings of one content and another content
BurstInputs == {Submission(b) : b \in {BodyJson, BodyJsonB64, BodyText1}}

\* contents sent as they are and sent encoded
EncodingInputs ==
    {Submission(b) : b \in {BodyJson, BodyJsonB64, BodyText1, BodyText1B64,
                            BodyB64Like, BodyB64LikeB64}}

\* requests of three projects, each with the key of its project
ProjectInputs ==
    {[Submission(b) EXCEPT !.pid = p[1], !.query = <<p[2]>>] :
        b \in {BodyJson, BodyText1},
        p \in {<<Pid1, "k1">>, <<Pid2, "k2">>, <<Pid108, "k3">>}}

NoInput == [pid |-> <<>>, query |-> <<>>, querySecret |-> <<>>,
            header |-> <<>>, body |-> <<>>, readOk |-> FALSE]

\* ------------------------------------------------------------------- state
VARIABLES
    cfg,             \* a.cfg: UrlCacheExpiration and MaxCacheUses
    cache,           \* a.cache: key -> [count, expiresAt]
    now,             \* the clock of the cache store, in seconds
    ignoredItems,    \* a.ignoredItems
    processedItems,  \* a.processedItems
    requestStorage,  \* a.requestStorage: the bag of messages put
    pc,              \* position of each apiHandler invocation
    input,           \* the request of each invocation
    local,           \* its locals: projectId, bodyBytes, cacheKey, count,
                     \* whether line 140 skipped the Set, and the discarded
                     \* errors of Get and Incr
    resp,            \* its response: status code and the two headers
    xSentryAuth,     \* the key and secret getSentryKeyAndSecret returned to it
    stats            \* the statsHandler invocation: position and values read

vars == <<cfg, cache, now, ignoredItems, processedItems, requestStorage,
          pc, input, local, resp, xSentryAuth, stats>>

NoLocal == [projectId |-> 0, bodyBytes |-> <<>>, cacheKey |-> <<>>, count |-> 0,
            setSkipped |-> FALSE, getErr |-> FALSE, incrErr |-> FALSE]
NoResp == [status |-> 0, cacheCount |-> -1, tag |-> ""]
NoAuth == [sentry_key |-> <<>>, sentry_secret |-> <<>>]

\* the handler invocations of the run
Requests == DOMAIN pc

StatusNotFound == 404
StatusNoContent == 204

InitWith(n) ==
    /\ cfg \in [UrlCacheExpiration : -1..MaxExpiration,
                MaxCacheUses : -1..MaxUses]
    /\ cache = <<>>
    /\ now = 0
    /\ ignoredItems = 0
    /\ processedItems = 0
    /\ requestStorage = EmptyBag
    /\ pc = [r \in 1..n |-> "idle"]
    /\ input = [r \in 1..n |-> NoInput]
    /\ local = [r \in 1..n |-> NoLocal]
    /\ resp = [r \in 1..n |-> NoResp]
    /\ xSentryAuth = [r \in 1..n |-> NoAuth]
    /\ stats = [pc |-> "idle", processed |-> 0, ignored |-> 0]

Init == InitWith(NumReq)

\* -------------------------------------------------------------- apiHandler
\* a variant of the checks that lets any key pass
RefusedNoAuth(id, in, body) == id.err \/ body.err

\* a variant of the checks that goes on after a failed read of the body
RefusedNoBody(id, in, body) ==
    \/ id.err
    \/ ~IsValidProjectAndPublicKey(id.val, getSentryKeyAndSecret(in).sentry_key)

\* lines 68, 74 and 81: the three checks that end the request with 404
Refused(id, in, body) ==
    \/ id.err
    \/ ~IsValidProjectAndPublicKey(id.val, getSentryKeyAndSecret(in).sentry_key)
    \/ body.err

\* a variant of the test that takes a zero expiration for a time to live
CacheEnabledGe == cfg.UrlCacheExpiration >= 0

\* line 138: a.cfg.UrlCacheExpiration > 0
CacheEnabled == cfg.UrlCacheExpiration > 0

\* lines 64-106 and 136-138: parse the projectId, validate project and key,
\* read the body, compute the cache key and enter validateCache.  Nothing
\* shared is written.  Invocations are numbered in the order they begin.
apiHandlerBegin(r, in) ==
    /\ pc[r] = "idle"
    /\ \A q \in Requests : q < r => pc[q] # "idle"
    /\ input' = [input EXCEPT ![r] = in]
    /\ xSentryAuth' = [xSentryAuth EXCEPT ![r] =
            IF Atoi(in.pid).err THEN @ ELSE getSentryKeyAndSecret(in)]
    /\ LET id == Atoi(in.pid)
           body == getRequestBody(in)
           h == HashForGrouping(body.body)
       IN  IF Refused(id, in, body)
           THEN /\ resp' = [resp EXCEPT ![r].status = StatusNotFound]
                /\ pc' = [pc EXCEPT ![r] = "done"]
                /\ local' = local
           ELSE /\ local' = [local EXCEPT ![r] =
                        [projectId |-> id.val, bodyBytes |-> body.body,
                         cacheKey |-> in.pid \o h.hash, count |-> 0,
                         setSkipped |-> FALSE, getErr |-> FALSE,
                         incrErr |-> FALSE]]
                /\ pc' = [pc EXCEPT ![r] =
                        IF CacheEnabled THEN "get" ELSE "decide"]
                /\ resp' = resp
    /\ UNCHANGED <<cfg, cache, now, ignoredItems, processedItems,
                   requestStorage, stats>>

\* line 139: count, _ = a.cache.Get(url)
validateCacheGet(r) ==
    /\ pc[r] = "get"
    /\ LET c == CacheGet(cache, local[r].cacheKey, now)
       IN  /\ local' = [local EXCEPT ![r].count = c, ![r].setSkipped = (c # 0)]
           /\ pc' = [pc EXCEPT ![r] = IF c = 0 THEN "set" ELSE "incr"]
    /\ UNCHANGED <<cfg, cache, now, ignoredItems, processedItems,
                   requestStorage, input, resp, stats, xSentryAuth>>

\* line 139 when the store is unavailable: the zero count, error discarded
validateCacheGetFail(r) ==
    /\ pc[r] = "get"
    /\ local' = [local EXCEPT ![r].count = 0, ![r].getErr = TRUE]
    /\ pc' = [pc EXCEPT ![r] = "set"]
    /\ UNCHANGED <<cfg, cache, now, ignoredItems, processedItems,
                   requestStorage, input, resp, stats, xSentryAuth>>

\* a variant of the Set that replaces the entry of the key
validateCacheSetReplace(r) ==
    /\ pc[r] = "set"
    /\ cache' = [x \in DOMAIN cache \cup {local[r].cacheKey} |->
                   IF x = local[r].cacheKey
                   THEN [count |-> 0, expiresAt |-> now + cfg.UrlCacheExpiration]
                   ELSE cache[x]]
    /\ pc' = [pc EXCEPT ![r] = "incr"]
    /\ UNCHANGED <<cfg, now, ignoredItems, processedItems, requestStorage,
                   input, local, resp, stats, xSentryAuth>>

\* lines 140-142: a.cache.Set(url, UrlCacheExpiration seconds)
validateCacheSet(r) ==
    /\ pc[r] = "set"
    /\ cache' = CacheSet(cache, local[r].cacheKey, cfg.UrlCacheExpiration, now)
    /\ pc' = [pc EXCEPT ![r] = "incr"]
    /\ UNCHANGED <<cfg, now, ignoredItems, processedItems, requestStorage,
                   input, local, resp, stats, xSentryAuth>>

\* lines 140-142 when the store is unavailable: nothing is stored
validateCacheSetFail(r) ==
    /\ pc[r] = "set"
    /\ pc' = [pc EXCEPT ![r] = "incr"]
    /\ UNCHANGED <<cfg, cache, now, ignoredItems, processedItems,
                   requestStorage, input, local, resp, stats, xSentryAuth>>

\* a variant of the increment that is not serialized by the store: the count
\* read by Get plus one is written back and returned
validateCacheIncrRacy(r) ==
    /\ pc[r] = "incr"
    /\ LET k == local[r].cacheKey
           e == IF k \in DOMAIN cache THEN cache[k].expiresAt ELSE NoExpiry
       IN  cache' = [x \in DOMAIN cache \cup {k} |->
                       IF x = k THEN [count |-> local[r].count + 1, expiresAt |-> e]
                       ELSE cache[x]]
    /\ local' = [local EXCEPT ![r].count = @ + 1]
    /\ pc' = [pc EXCEPT ![r] = "decide"]
    /\ UNCHANGED <<cfg, now, ignoredItems, processedItems, requestStorage,
                   input, resp, stats, xSentryAuth>>

\* a variant that increments but keeps the count read by Get
validateCacheIncrDiscard(r) ==
    /\ pc[r] = "incr"
    /\ cache' = CacheIncr(cache, local[r].cacheKey, now)
    /\ pc' = [pc EXCEPT ![r] = "decide"]
    /\ UNCHANGED <<cfg, now, ignoredItems, processedItems, requestStorage,
                   input, local, resp, stats, xSentryAuth>>

\* a variant that goes on counting on an entry whose time to live is over
validateCacheIncrStale(r) ==
    /\ pc[r] = "incr"
    /\ LET k == local[r].cacheKey
       IN  cache' = IF k \in DOMAIN cache
                    THEN [cache EXCEPT ![k].count = @ + 1]
                    ELSE CacheIncr(cache, k, now)
    /\ local' = [local EXCEPT ![r].count = cache'[local[r].cacheKey].count]
    /\ pc' = [pc EXCEPT ![r] = "decide"]
    /\ UNCHANGED <<cfg, now, ignoredItems, processedItems, requestStorage,
                   input, resp, stats, xSentryAuth>>

\* lines 143-145: count, _ = a.cache.Incr(url); return count
validateCacheIncr(r) ==
    /\ pc[r] = "incr"
    /\ cache' = CacheIncr(cache, local[r].cacheKey, now)
    /\ local' = [local EXCEPT ![r].count = cache'[local[r].cacheKey].count]
    /\ pc' = [pc EXCEPT ![r] = "decide"]
    /\ UNCHANGED <<cfg, now, ignoredItems, processedItems, requestStorage,
                   input, resp, stats, xSentryAuth>>

\* a variant of the failure that keeps the count read by Get
validateCacheIncrFailKeep(r) ==
    /\ pc[r] = "incr"
    /\ local' = [local EXCEPT ![r].incrErr = TRUE]
    /\ pc' = [pc EXCEPT ![r] = "decide"]
    /\ UNCHANGED <<cfg, cache, now, ignoredItems, processedItems,
                   requestStorage, input, resp, stats, xSentryAuth>>

\* lines 143-145 when the store is unavailable: the zero count
validateCacheIncrFail(r) ==
    /\ pc[r] = "incr"
    /\ local' = [local EXCEPT ![r].count = 0, ![r].incrErr = TRUE]
    /\ pc' = [pc EXCEPT ![r] = "decide"]
    /\ UNCHANGED <<cfg, cache, now, ignoredItems, processedItems,
                   requestStorage, input, resp, stats, xSentryAuth>>

\* a variant of the comparison that is off by one
ExceedsGe(count) == count >= cfg.MaxCacheUses

\* a variant that compares the count before the increment
ExceedsPre(count) == count - 1 > cfg.MaxCacheUses

\* line 107: count > int64(a.cfg.MaxCacheUses)
Exceeds(count) == count > cfg.MaxCacheUses

\* a variant that bumps the wrong stat
apiHandlerIgnoreWrongStat(r) ==
    /\ pc[r] = "decide"
    /\ Exceeds(local[r].count)
    /\ resp' = [resp EXCEPT ![r] = [status |-> StatusNoContent,
                    cacheCount |-> local[r].count, tag |-> "IGNORED"]]
    /\ processedItems' = processedItems + 1
    /\ pc' = [pc EXCEPT ![r] = "done"]
    /\ UNCHANGED <<cfg, cache, now, ignoredItems, requestStorage,
                   input, local, stats, xSentryAuth>>

\* a variant without the return of line 112: the request goes on to be put
apiHandlerIgnoreNoReturn(r) ==
    /\ pc[r] = "decide"
    /\ Exceeds(local[r].count)
    /\ resp' = [resp EXCEPT ![r].cacheCount = local[r].count,
                            ![r].tag = "IGNORED"]
    /\ ignoredItems' = ignoredItems + 1
    /\ pc' = [pc EXCEPT ![r] = "put"]
    /\ UNCHANGED <<cfg, cache, now, processedItems, requestStorage,
                   input, local, stats, xSentryAuth>>

\* lines 107-113: the count exceeds MaxCacheUses
apiHandlerIgnore(r) ==
    /\ pc[r] = "decide"
    /\ Exceeds(local[r].count)
    /\ resp' = [resp EXCEPT ![r] = [status |-> StatusNoContent,
                    cacheCount |-> local[r].count, tag |-> "IGNORED"]]
    /\ ignoredItems' = ignoredItems + 1
    /\ pc' = [pc EXCEPT ![r] = "done"]
    /\ UNCHANGED <<cfg, cache, now, processedItems, requestStorage,
                   input, local, stats, xSentryAuth>>

\* lines 115-117: otherwise the headers say PROCESSED and the stat is bumped
apiHandlerAdmit(r) ==
    /\ pc[r] = "decide"
    /\ ~Exceeds(local[r].count)
    /\ resp' = [resp EXCEPT ![r].cacheCount = local[r].count,
                            ![r].tag = "PROCESSED"]
    /\ processedItems' = processedItems + 1
    /\ pc' = [pc EXCEPT ![r] = "put"]
    /\ UNCHANGED <<cfg, cache, now, ignoredItems, requestStorage,
                   input, local, stats, xSentryAuth>>

\* the message processRequest builds (lines 152-158); req stands for the
\* request's method, headers and URI
Message(r) ==
    [req |-> r, ProjectId |-> local[r].projectId,
     RequestBody |-> local[r].bodyBytes]

\* lines 119-121 and 148-161: processRequest puts the message, then 204
processRequest(r) ==
    /\ pc[r] = "put"
    /\ requestStorage' = requestStorage (+) SetToBag({Message(r)})
    /\ resp' = [resp EXCEPT ![r].status = StatusNoContent]
    /\ pc' = [pc EXCEPT ![r] = "done"]
    /\ UNCHANGED <<cfg, cache, now, ignoredItems, processedItems,
                   input, local, stats, xSentryAuth>>

\* ------------------------------------------------------------ statsHandler
\* line 129: read a.processedItems
statsHandlerBegin ==
    /\ stats.pc \in {"idle", "done"}
    /\ stats' = [pc |-> "ignored", processed |-> processedItems, ignored |-> 0]
    /\ UNCHANGED <<cfg, cache, now, ignoredItems, processedItems,
                   requestStorage, pc, input, local, resp, xSentryAuth>>

\* lines 132-133: read a.ignoredItems and write the report
statsHandlerEnd ==
    /\ stats.pc = "ignored"
    /\ stats' = [stats EXCEPT !.pc = "done", !.ignored = ignoredItems]
    /\ UNCHANGED <<cfg, cache, now, ignoredItems, processedItems,
                   requestStorage, pc, input, local, resp, xSentryAuth>>

\* ------------------------------------------------------------------- clock
Tick ==
    /\ now < MaxTime
    /\ now' = now + 1
    /\ UNCHANGED <<cfg, cache, ignoredItems, processedItems, requestStorage,
                   pc, input, local, resp, stats, xSentryAuth>>

\* the handlers, the failures of the cache store and the clock
NextCore ==
    \/ \E r \in Requests, in \in Inputs : apiHandlerBegin(r, in)
    \/ \E r \in Requests : validateCacheGet(r)
    \/ \E r \in Requests : validateCacheGetFail(r)
    \/ \E r \in Requests : validateCacheSet(r)
    \/ \E r \in Requests : validateCacheSetFail(r)
    \/ \E r \in Requests : validateCacheIncr(r)
    \/ \E r \in Requests : validateCacheIncrFail(r)
    \/ \E r \in Requests : apiHandlerIgnore(r)
    \/ \E r \in Requests : apiHandlerAdmit(r)
    \/ \E r \in Requests : processRequest(r)
    \/ Tick

SpecCore == Init /\ [][NextCore]_vars

\* the whole system: the above and the statistics endpoint
Next ==
    \/ NextCore
    \/ statsHandlerBegin
    \/ statsHandlerEnd

Spec == Init /\ [][Next]_vars

\* A burst of requests inside one TTL window with the cache store
\* available: the clock stands still and no cache operation fails.
InitWindow == InitWith(NumBurst)

NextWindow ==
    \/ \E r \in Requests, in \in BurstInputs : apiHandlerBegin(r, in)
    \/ \E r \in Requests : validateCacheGet(r)
    \/ \E r \in Requests : validateCacheSet(r)
    \/ \E r \in Requests : validateCacheIncr(r)
    \/ \E r \in Requests : apiHandlerIgnore(r)
    \/ \E r \in Requests : apiHandlerAdmit(r)
    \/ \E r \in Requests : processRequest(r)

SpecWindow == InitWindow /\ [][NextWindow]_vars

\* The resolution of key and secret on its own: one request drawn from
\* AuthInputs, and the call of getSentryKeyAndSecret on it.
MaxHeaderLen == 2

HeaderValues ==
    {<<"sentry_key", "=", "k1">>, <<"sentry_key", "=", "k2">>,
     <<"sentry_secret", "=", "s1">>, <<"sentry_secret", "=", "s2">>,
     <<"sentry_version", "=", "7">>,
     <<"sentry_key">>,                       \* no "=" in the element
     <<"sentry_key", "=", "k", "=", "2">>}   \* a value holding a "="

HeaderLists ==
    UNION {[1..n -> HeaderValues] : n \in 0..MaxHeaderLen}

AuthInputs ==
    {[pid |-> Pid1, query |-> q, querySecret |-> s, header |-> h,
      body |-> BodyJson, readOk |-> TRUE] :
        q \in {<<>>, <<"k1">>}, s \in {<<>>, <<"s0">>}, h \in HeaderLists}

InitAuth ==
    /\ cfg \in [UrlCacheExpiration : {MaxExpiration}, MaxCacheUses : {MaxUses}]
    /\ cache = <<>>
    /\ now = 0
    /\ ignoredItems = 0
    /\ processedItems = 0
    /\ requestStorage = EmptyBag
    /\ pc = [r \in 1..1 |-> "idle"]
    /\ input \in [1..1 -> AuthInputs]
    /\ local = [r \in 1..1 |-> NoLocal]
    /\ resp = [r \in 1..1 |-> NoResp]
    /\ xSentryAuth = [r \in 1..1 |-> NoAuth]
    /\ stats = [pc |-> "idle", processed |-> 0, ignored |-> 0]

\* line 74: the call getSentryKeyAndSecret(r)
resolveAuth(r) ==
    /\ pc[r] = "idle"
    /\ xSentryAuth' = [xSentryAuth EXCEPT ![r] = getSentryKeyAndSecret(input[r])]
    /\ pc' = [pc EXCEPT ![r] = "done"]
    /\ UNCHANGED <<cfg, cache, now, ignoredItems, processedItems,
                   requestStorage, input, local, resp, stats>>

NextAuth == \E r \in Requests : resolveAuth(r)

SpecAuth == InitAuth /\ [][NextAuth]_vars

\* Plain and encoded submissions inside one TTL window with the cache store
\* available.
NextEncoding ==
    \/ \E r \in Requests, in \in EncodingInputs : apiHandlerBegin(r, in)
    \/ \E r \in Requests : validateCacheGet(r)
    \/ \E r \in Requests : validateCacheSet(r)
    \/ \E r \in Requests : validateCacheIncr(r)
    \/ \E r \in Requests : apiHandlerIgnore(r)
    \/ \E r \in Requests : apiHandlerAdmit(r)
    \/ \E r \in Requests : processRequest(r)

SpecEncoding == Init /\ [][NextEncoding]_vars

\* Submissions of several projects inside one TTL window with the cache
\* store available.
NextProjects ==
    \/ \E r \in Requests, in \in ProjectInputs : apiHandlerBegin(r, in)
    \/ \E r \in Requests : validateCacheGet(r)
    \/ \E r \in Requests : validateCacheSet(r)
    \/ \E r \in Requests : validateCacheIncr(r)
    \/ \E r \in Requests : apiHandlerIgnore(r)
    \/ \E r \in Requests : apiHandlerAdmit(r)
    \/ \E r \in Requests : processRequest(r)

SpecProjects == Init /\ [][NextProjects]_vars

\* ------------------------------------------------------ claims: vocabulary
\* the request passed validation and its body was read
Accepted(r) == pc[r] # "idle" /\ resp[r].status # StatusNotFound

\* validateCache has returned to the handler
Returned(r) == Accepted(r) /\ pc[r] \in {"decide", "put", "done"}

\* the handler has taken its decision / has finished
Decided(r) == Accepted(r) /\ pc[r] \in {"put", "done"}
Finished(r) == Accepted(r) /\ pc[r] = "done"

Dedup == cfg.UrlCacheExpiration > 0

\* the accepted requests carrying cache key k
Carrying(k) == {r \in Requests : Accepted(r) /\ local[r].cacheKey = k}

KeysInUse == {local[r].cacheKey : r \in {q \in Requests : Accepted(q)}}

\* how many times the message of request r was put
Puts(r) == CopiesIn(Message(r), requestStorage)

Min(a, b) == IF a < b THEN a ELSE b

\* ------------------------------------------------------------------ claims
\* C1: with dedup enabled and threshold T = MaxCacheUses, of the N
\* submissions carrying one cache key within one TTL window the first
\* min(N, T) in the order of their increments are admitted (tagged
\* PROCESSED and put once) and the others are ignored (never put), under
\* every interleaving of the handlers.
C1_FirstTAdmitted ==
    Dedup =>
      \A k \in KeysInUse :
        LET all == Carrying(k)
            adm == {r \in all : resp[r].tag = "PROCESSED"}
        IN  /\ \A r \in all : Decided(r) =>
                 resp[r].tag = IF local[r].count <= cfg.MaxCacheUses
                               THEN "PROCESSED" ELSE "IGNORED"
            /\ \A r \in all : Finished(r) => Puts(r) = IF r \in adm THEN 1 ELSE 0
            /\ (\A r \in Requests : pc[r] = "done") =>
                 /\ Cardinality(adm) =
                      Cardinality(1..Min(Cardinality(all), cfg.MaxCacheUses))
                 /\ \A a \in adm, i \in all \ adm : local[a].count < local[i].count

\* more submissions of one key than the threshold allows have all finished
C1_Witness ==
    /\ Dedup
    /\ cfg.MaxCacheUses >= 1
    /\ \A r \in Requests : pc[r] = "done"
    /\ \E k \in KeysInUse :
         /\ Cardinality(Carrying(k)) > cfg.MaxCacheUses
         /\ Cardinality({r \in Carrying(k) : resp[r].tag = "PROCESSED"})
              = cfg.MaxCacheUses

\* C2: the counts validateCache has returned to K callers on one key within
\* one TTL window, starting from an absent entry, are exactly 1..K, each
\* once, and the entry holds K.
C2_CountsOneToK ==
    Dedup =>
      \A k \in KeysInUse :
        LET ret == {r \in Carrying(k) : Returned(r)}
        IN  /\ {local[r].count : r \in ret} = 1..Cardinality(ret)
            /\ ret # {} => k \in DOMAIN cache /\ cache[k].count = Cardinality(ret)

\* three callers on one key have all returned before any of them decided
C2_Witness ==
    /\ Dedup
    /\ \E k \in KeysInUse :
         Cardinality({r \in Carrying(k) : pc[r] = "decide"}) >= 3

\* the TTL window of the entry of key k has fully elapsed
Elapsed(k) ==
    /\ k \in DOMAIN cache
    /\ cache[k].expiresAt # NoExpiry
    /\ now >= cache[k].expiresAt

\* C3: once the TTL window of an entry has elapsed, a submission of its key
\* starts over, whatever the count had reached: its Get reads 0, so that it
\* calls Set; its Set replaces the entry by a fresh one with a new window;
\* and its Incr, on the fresh or still elapsed entry, returns 1.
C3_FreshAfterExpiry ==
    [][\A r \in Requests :
         LET k == local[r].cacheKey
             fresh == Live(cache, k, now) /\ cache[k].count = 0
         IN  /\ (pc[r] = "get" /\ pc'[r] # "get" /\ Elapsed(k)) =>
                  (local'[r].count = 0 /\ pc'[r] = "set")
             /\ (pc[r] = "set" /\ pc'[r] = "incr" /\ Elapsed(k) /\ cache' # cache) =>
                  cache'[k] = [count |-> 0,
                               expiresAt |-> now + cfg.UrlCacheExpiration]
             /\ (pc[r] = "incr" /\ pc'[r] = "decide" /\ cache' # cache
                   /\ (Elapsed(k) \/ fresh)) =>
                  local'[r].count = 1
      ]_vars

\* two submissions of one key have both been counted 1, the later one on an
\* entry created after the window of the earlier one had elapsed
C3_Witness ==
    \E r, q \in Requests :
      /\ r # q
      /\ Finished(q) /\ Returned(r)
      /\ local[r].cacheKey = local[q].cacheKey
      /\ resp[q].cacheCount = 1
      /\ local[r].count = 1 /\ ~local[r].incrErr
      /\ now >= 1
      /\ local[r].cacheKey \in DOMAIN cache
      /\ cache[local[r].cacheKey] =
           [count |-> 1, expiresAt |-> now + cfg.UrlCacheExpiration]

\* C4 as stated: with MaxCacheUses = 0 and dedup enabled the first
\* occurrence of a content in a window (count 1) is admitted and every later
\* one is ignored.
C4_FirstAdmittedAtZero ==
    (Dedup /\ cfg.MaxCacheUses = 0) =>
      \A r \in Requests : (Decided(r) /\ ~local[r].incrErr) =>
        resp[r].tag = IF local[r].count = 1 THEN "PROCESSED" ELSE "IGNORED"

\* C4 (amended): with MaxCacheUses = 0 and dedup enabled every occurrence
\* whose Incr succeeds, the first of a window included, has a count of at
\* least 1 and is ignored and never put; an event is admitted only when its
\* Incr fails and the count is 0.
C4_AllIgnoredAtZero ==
    (Dedup /\ cfg.MaxCacheUses = 0) =>
      \A r \in Requests : Decided(r) =>
        IF local[r].incrErr
        THEN local[r].count = 0 /\ resp[r].tag = "PROCESSED"
        ELSE local[r].count >= 1 /\ resp[r].tag = "IGNORED" /\ Puts(r) = 0

\* the first occurrence of a content has been ignored under threshold 0
C4_Witness ==
    /\ Dedup
    /\ cfg.MaxCacheUses = 0
    /\ \E r \in Requests :
         /\ Finished(r)
         /\ local[r].count = 1 /\ ~local[r].incrErr /\ ~local[r].getErr
         /\ Cardinality(Carrying(local[r].cacheKey)) = 1
         /\ resp[r].tag = "IGNORED"

\* C5 as stated: with dedup disabled no cache operation is performed and every
\* validated event is admitted, for every threshold.
C5_AlwaysAdmitsWhenDisabled ==
    ~Dedup =>
      /\ cache = <<>>
      /\ \A r \in Requests :
           /\ pc[r] \notin {"get", "set", "incr"}
           /\ Decided(r) => resp[r].tag = "PROCESSED"
           /\ Finished(r) => resp[r].status = StatusNoContent /\ Puts(r) = 1

\* C5 (amended): with dedup disabled no cache operation is performed, the
\* count is 0 and every validated event is admitted for every threshold of
\* at least 0; under a negative threshold the zero count exceeds it and
\* every event is ignored.
C5_AdmitsWhenDisabled ==
    ~Dedup =>
      /\ cache = <<>>
      /\ \A r \in Requests :
           /\ pc[r] \notin {"get", "set", "incr"}
           /\ Decided(r) =>
                /\ local[r].count = 0
                /\ resp[r].tag = IF cfg.MaxCacheUses >= 0
                                 THEN "PROCESSED" ELSE "IGNORED"
           /\ Finished(r) =>
                /\ resp[r].status = StatusNoContent
                /\ Puts(r) = IF cfg.MaxCacheUses >= 0 THEN 1 ELSE 0

\* with dedup disabled and threshold 0 a content and its repeat were admitted
C5_Witness ==
    /\ ~Dedup
    /\ cfg.MaxCacheUses = 0
    /\ \E r, q \in Requests :
         /\ r # q
         /\ Finished(r) /\ Finished(q)
         /\ local[r].cacheKey = local[q].cacheKey
         /\ Puts(r) = 1 /\ Puts(q) = 1

AllDone == \A r \in Requests : pc[r] = "done"

\* C6: each request bumps exactly one stat, once: at every step the two
\* counters equal the numbers of requests tagged PROCESSED and IGNORED, a tag
\* once set never changes, neither counter decreases, and what statsHandler
\* reads once all handlers have finished are exactly these two numbers.
C6_StatsExact ==
    [][/\ processedItems' =
            Cardinality({r \in Requests : resp'[r].tag = "PROCESSED"})
       /\ ignoredItems' =
            Cardinality({r \in Requests : resp'[r].tag = "IGNORED"})
       /\ processedItems' >= processedItems
       /\ ignoredItems' >= ignoredItems
       /\ \A r \in Requests : resp[r].tag # "" => resp'[r].tag = resp[r].tag
       /\ (AllDone /\ stats.pc # "ignored" /\ stats'.pc = "ignored") =>
            stats'.processed =
              Cardinality({r \in Requests : resp[r].tag = "PROCESSED"})
       /\ (AllDone /\ stats.pc = "ignored" /\ stats'.pc = "done") =>
            /\ stats'.ignored =
                 Cardinality({r \in Requests : resp[r].tag = "IGNORED"})
            /\ stats'.processed = stats.processed
      ]_vars

\* after one admitted and one ignored request the report says 1 and 1
C6_Witness ==
    /\ AllDone
    /\ stats = [pc |-> "done", processed |-> 1, ignored |-> 1]
    /\ processedItems = 1
    /\ ignoredItems = 1
    /\ \E r, q \in Requests : resp[r].tag = "PROCESSED" /\ resp[q].tag = "IGNORED"

\* the request is one that lines 66-77 reject: a projectId out of range or a
\* project and key that do not validate
BadProjectOrKey(in) ==
    LET id == Atoi(in.pid)
    IN  \/ id.err
        \/ ~IsValidProjectAndPublicKey(id.val, getSentryKeyAndSecret(in).sentry_key)

\* C7: a request with a malformed projectId or a failed project/key
\* validation is answered 404 in its first step and changes neither the
\* cache, nor the stat counters, nor the delivery queue; once answered it does
\* nothing more.
C7_RejectionMutatesNothing ==
    [][\A r \in Requests :
         /\ (pc[r] = "idle" /\ pc'[r] # "idle" /\ BadProjectOrKey(input'[r])) =>
              /\ pc'[r] = "done"
              /\ resp'[r] = [NoResp EXCEPT !.status = StatusNotFound]
              /\ UNCHANGED <<cache, ignoredItems, processedItems, requestStorage>>
         /\ (pc[r] = "done" /\ resp[r].status = StatusNotFound) =>
              UNCHANGED <<pc[r], resp[r], local[r]>>
      ]_vars

\* a request was rejected after another one had been counted and put
C7_Witness ==
    \E r, q \in Requests :
      /\ pc[r] = "done"
      /\ resp[r].status = StatusNotFound
      /\ BadProjectOrKey(input[r])
      /\ local[r] = NoLocal
      /\ Finished(q)
      /\ Puts(q) = 1
      /\ cache # <<>>

GroupingFailed(r) == HashForGrouping(local[r].bodyBytes).err

\* C9: an event whose grouping hash fails is admitted and put, whatever else
\* its project has submitted in the window.  Stated for thresholds of at
\* least 1 and for events whose Incr succeeded and whose body no other
\* request carries, so that neither the threshold, nor a failure of the
\* store, nor a repeat of the same content accounts for a drop.
C9_GroupingFailureAdmits ==
    (Dedup /\ cfg.MaxCacheUses >= 1) =>
      \A r \in Requests :
        (/\ Decided(r)
         /\ GroupingFailed(r)
         /\ ~local[r].incrErr
         /\ \A q \in Requests \ {r} :
              Accepted(q) => local[q].bodyBytes # local[r].bodyBytes) =>
          /\ resp[r].tag = "PROCESSED"
          /\ Finished(r) => Puts(r) = 1

\* C10: a validated request whose body was read is tagged IGNORED exactly
\* when the count validateCache returned exceeds MaxCacheUses and PROCESSED
\* otherwise; the count header is that count; it ends with 204, put once if
\* PROCESSED and never if IGNORED; nothing is put before the decision.
C10_ResponseAgrees ==
    \A r \in Requests :
      /\ Decided(r) =>
           /\ resp[r].tag \in {"PROCESSED", "IGNORED"}
           /\ resp[r].tag = "IGNORED" <=> local[r].count > cfg.MaxCacheUses
           /\ resp[r].cacheCount = local[r].count
      /\ Finished(r) =>
           /\ resp[r].status = StatusNoContent
           /\ Puts(r) = IF resp[r].tag = "PROCESSED" THEN 1 ELSE 0
      /\ (Accepted(r) /\ ~Finished(r)) =>
           /\ resp[r].status = 0
           /\ Puts(r) = 0

\* one request ended IGNORED and one PROCESSED, both with their count header
C10_Witness ==
    \E r, q \in Requests :
      /\ Finished(r) /\ Finished(q)
      /\ resp[r] = [status |-> StatusNoContent, cacheCount |-> 2, tag |-> "IGNORED"]
      /\ resp[q] = [status |-> StatusNoContent, cacheCount |-> 1, tag |-> "PROCESSED"]
      /\ Puts(r) = 0 /\ Puts(q) = 1

PairsOf(hs, name) ==
    {i \in 1..Len(hs) :
       \E e \in 1..Len(hs[i]) :
         /\ hs[i][e] = "="
         /\ \A j \in 1..(e - 1) : hs[i][j] # "="
         /\ SubSeq(hs[i], 1, e - 1) = <<name>>}

ValueOf(v) ==
    LET e == CHOOSE x \in 1..Len(v) : v[x] = "=" /\ \A j \in 1..(x - 1) : v[j] # "="
    IN  SubSeq(v, e + 1, Len(v))

LastOf(S) == CHOOSE i \in S : \A j \in S : j <= i

\* the value the last pair `name=value` of the header gives to a field,
\* or dflt when the header has no such pair
Resolved(in, name, dflt) ==
    LET ps == PairsOf(in.header, name)
    IN  IF ps = {} THEN dflt ELSE ValueOf(in.header[LastOf(ps)])

\* C12 as stated: key and secret both start from the query parameters and
\* each is overridden by the last pair of its field in the X-Sentry-Auth list.
C12_KeyAndSecretFromQuery ==
    \A r \in Requests : pc[r] = "done" =>
      /\ xSentryAuth[r].sentry_key
           = Resolved(input[r], "sentry_key", input[r].query)
      /\ xSentryAuth[r].sentry_secret
           = Resolved(input[r], "sentry_secret", input[r].querySecret)

\* C12: the key starts from the query parameter sentry_key and the secret
\* starts empty (no query parameter is read for it); each field is then
\* overridden, independently of the other, by the last pair of that field
\* in the X-Sentry-Auth list.
C12_HeaderOverridesQueryKey ==
    \A r \in Requests : pc[r] = "done" =>
      /\ xSentryAuth[r].sentry_key
           = Resolved(input[r], "sentry_key", input[r].query)
      /\ xSentryAuth[r].sentry_secret
           = Resolved(input[r], "sentry_secret", <<>>)

\* a query key k1 and a header that carries the key twice, k1 and then k2,
\* and no secret: the key is k2
C12_Witness ==
    \E r \in Requests :
      /\ pc[r] = "done"
      /\ input[r].query = <<"k1">>
      /\ input[r].querySecret # <<>>
      /\ input[r].header = << <<"sentry_key", "=", "k1">>,
                              <<"sentry_key", "=", "k2">> >>
      /\ xSentryAuth[r] = [sentry_key |-> <<"k2">>, sentry_secret |-> <<>>]

\* request q submits, base64-encoded, the content request r submits as it is
EncodedOf(r, q) ==
    /\ Accepted(r) /\ Accepted(q)
    /\ input[r].pid = input[q].pid
    /\ DecodeString(input[q].body) = [bytes |-> input[r].body, err |-> FALSE]

\* the two requests are counted on one counter
OneCounter(r, q) ==
    /\ local[r].bodyBytes = local[q].bodyBytes
    /\ local[r].cacheKey = local[q].cacheKey
    /\ (Dedup /\ Returned(r) /\ Returned(q)) =>
         /\ local[r].count # local[q].count
         /\ cache[local[r].cacheKey].count >= 2

\* C13 as stated: a plain and an encoded submission of one content for one
\* project carry the same cache key and are counted on one counter.
C13_EncodingsCollapse ==
    \A r, q \in Requests : EncodedOf(r, q) => OneCounter(r, q)

\* C13: a plain and an encoded submission of one content for one project
\* carry the same cache key and are counted on one counter, provided the
\* content is not itself a valid base64 text.
C13_EncodingsCollapseUnlessDecodable ==
    \A r, q \in Requests :
      (EncodedOf(r, q) /\ DecodeString(input[r].body).err) => OneCounter(r, q)

\* the plain and the encoded submission of {"a":1} have both been counted,
\* one of them at 2
C13_Witness ==
    /\ Dedup
    /\ \E r, q \in Requests :
         /\ EncodedOf(r, q)
         /\ input[r].body = BodyJson
         /\ Returned(r) /\ Returned(q)
         /\ local[q].cacheKey = local[r].cacheKey
         /\ {local[r].count, local[q].count} = {1, 2}

\* C14: when callers of validateCache have read 0 for one absent key and
\* all call Set, there is one counter: a Set that finds the entry leaves the
\* store as it is (it neither resets a count nor replaces the entry), and
\* each Incr returns the count of that entry plus one, different from the
\* count of every caller that returned before (1 and 2 for two callers).
C14_SecondSetIsNoOp ==
    [][\A r \in Requests :
         LET k == local[r].cacheKey
         IN  /\ (pc[r] = "set" /\ pc'[r] = "incr" /\ k \in DOMAIN cache) =>
                  cache' = cache
             /\ (pc[r] = "incr" /\ pc'[r] = "decide") =>
                  /\ k \in DOMAIN cache
                  /\ local'[r].count = cache[k].count + 1
                  /\ cache'[k] = [cache[k] EXCEPT !.count = local'[r].count]
                  /\ \A q \in Carrying(k) \ {r} :
                       Returned(q) => local[q].count < local'[r].count
      ]_vars

\* two callers read 0 on one key; the first has incremented the entry to 1
\* and the second has called Set and is about to increment
C14_Witness ==
    \E r, q \in Requests :
      /\ r # q
      /\ Accepted(r) /\ Accepted(q)
      /\ local[r].cacheKey = local[q].cacheKey
      /\ pc[r] = "decide" /\ local[r].count = 1
      /\ pc[q] = "incr" /\ local[q].count = 0
      /\ cache[local[q].cacheKey].count = 1

\* C15: when the entry of the key expires between the Get of a validateCache
\* call, which read a non-zero count so that Set was skipped, and its Incr,
\* the Incr succeeds and returns the restarted count 1, and the handler
\* decides on the count validateCache returned.
C15_ExpiryBetweenGetAndIncr ==
    [][\A r \in Requests :
         LET k == local[r].cacheKey
         IN  /\ (/\ pc[r] = "incr" /\ pc'[r] = "decide"
                 /\ local[r].setSkipped /\ local[r].count >= 1
                 /\ Elapsed(k)
                 /\ cache' # cache) =>
                  /\ ~local'[r].incrErr
                  /\ local'[r].count = 1
                  /\ cache'[k].count = 1
             /\ (pc[r] = "decide" /\ pc'[r] # "decide") =>
                  /\ resp'[r].cacheCount = local[r].count
                  /\ resp'[r].tag = IF local[r].count <= cfg.MaxCacheUses
                                    THEN "PROCESSED" ELSE "IGNORED"
      ]_vars

\* a request whose Get read a non-zero count, so that it skipped the Set,
\* was counted 1 by its Incr after the entry had expired, and was decided
\* on the count 1
C15_Witness ==
    \E r \in Requests :
      /\ Decided(r)
      /\ local[r].setSkipped /\ ~local[r].incrErr
      /\ local[r].count = 1
      /\ resp[r].cacheCount = 1
      /\ now >= 1
      /\ cache[local[r].cacheKey].count = 1

\* C16: the expiry of an entry is armed when the entry is created, at
\* UrlCacheExpiration seconds from that moment, and no step changes the
\* expiry of an entry that exists and has not expired.
C16_ExpiryArmedAtCreationOnly ==
    [][\A k \in DOMAIN cache' :
         IF Live(cache, k, now)
         THEN cache'[k].expiresAt = cache[k].expiresAt
         ELSE (k \notin DOMAIN cache \/ cache'[k] # cache[k]) =>
                cache'[k].expiresAt = now + cfg.UrlCacheExpiration
      ]_vars

\* C17: a request whose body read fails ends in its first step, before
\* validateCache and processRequest: that step changes neither the cache,
\* nor the stat counters, nor the delivery queue, and the request takes no
\* step after it.
C17_BodyReadFailureAborts ==
    [][\A r \in Requests :
         /\ (pc[r] = "idle" /\ pc'[r] # "idle" /\ ~input'[r].readOk) =>
              /\ pc'[r] = "done"
              /\ local'[r] = NoLocal
              /\ resp'[r].tag = ""
              /\ UNCHANGED <<cache, ignoredItems, processedItems, requestStorage>>
         /\ (pc[r] # "idle" /\ ~input[r].readOk) =>
              /\ pc[r] = "done"
              /\ UNCHANGED <<pc[r], resp[r], local[r]>>
      ]_vars

\* a request of a known project with its key, whose body could not be read,
\* has ended after another request had been counted and put
C17_Witness ==
    \E r, q \in Requests :
      /\ pc[r] = "done"
      /\ ~input[r].readOk
      /\ ~BadProjectOrKey(input[r])
      /\ local[r] = NoLocal
      /\ Finished(q)
      /\ Puts(q) = 1
      /\ processedItems = 1 /\ ignoredItems = 0
      /\ cache # <<>>

\* C18: with dedup enabled and a threshold of at least 1 every entry of the
\* cache carries an expiry, so that no entry goes on counting for ever and
\* no key stays suppressed once its window has elapsed.
C18_EveryEntryExpires ==
    (Dedup /\ cfg.MaxCacheUses >= 1) =>
      \A k \in DOMAIN cache : cache[k].expiresAt # NoExpiry

\* C19: two accepted events of different projects carry different cache
\* keys, whatever their grouping identifiers, so that neither is counted on
\* the entry of the other.
C19_KeySeparatesProjects ==
    \A r, q \in Requests :
      (/\ Accepted(r) /\ Accepted(q)
       /\ local[r].projectId # local[q].projectId) =>
        local[r].cacheKey # local[q].cacheKey

====
